---- MODULE Spec2Model ----
(***************************************************************************)
(* Model of src/app.py: the Flask relay with the two request handlers      *)
(* upload_image (/upload) and get_image_from_mega_link                     *)
(* (/get_image_from_mega_link), the session helper get_mega_instance, the  *)
(* temp directory UPLOAD_FOLDER as a shared file system, and the storage   *)
(* provider (the mega client) as the environment: every call into it       *)
(* returns or raises nondeterministically.                                 *)
(*                                                                         *)
(* Two workers of the HTTP server handle requests concurrently.  A handler *)
(* is split where it reads or writes a file another request can reach.     *)
(* /upload works on a path no other request has (its uuid4 token) and on   *)
(* an object no client has a link to yet, so its try block is one step;    *)
(* /get_image_from_mega_link is split at each access to its temp file.     *)
(***************************************************************************)
EXTENDS Naturals, Integers, Sequences, FiniteSets, TLC

\* Bound of the model: the number of requests served in one behaviour.
MaxReqs == 2

\* The workers of the HTTP server that run the handlers.
Procs == {1, 2}

\* File contents (bytes) a client may upload.
Contents == {"c1", "c2"}

\* What a failed save or a failed fetch leaves behind on disk.
PartialBytes == "partial"

(***************************************************************************)
(* Python values                                                           *)
(***************************************************************************)
\* The absent handle: what .get('h') gives when there is no 'h'.
NoHandle == 0

\* None
None == [type |-> "NoneType", text |-> <<>>, handle |-> NoHandle]

\* A str, as its leading text pieces and, for a link, the object it names.
Str(text, handle) == [type |-> "str", text |-> text, handle |-> handle]

\* An int such as 123.
IntValue == [type |-> "int", text |-> <<>>, handle |-> NoHandle]

\* Python truth value of v: None and "" are falsy.
Truthy(v) ==
    CASE v.type = "NoneType" -> FALSE
      [] v.type = "str" -> Len(v.text) > 0
      [] OTHER -> TRUE

\* str.startswith(prefix), prefix being one text piece.
startswith(s, prefix) == Len(s.text) >= 1 /\ s.text[1] = prefix

\* The `in` operator on a str: c in s.
contains(s, c) == \E i \in 1..Len(s.text) : s.text[i] = c

(***************************************************************************)
(* File names and paths under UPLOAD_FOLDER                                *)
(***************************************************************************)
\* The file names a client sends: empty, plain, one with path components.
FileNames == {<<>>, <<"a.png">>, <<"..", "/", "a.png">>}

\* werkzeug's secure_filename: path separators and dot segments are dropped.
RECURSIVE secure_filename(_)
secure_filename(name) ==
    IF name = <<>> THEN <<>>
    ELSE IF Head(name) \in {"/", ".."} THEN secure_filename(Tail(name))
    ELSE <<Head(name)>> \o secure_filename(Tail(name))

\* No path (temp_download_path = None).
NoPath == <<>>

\* os.path.join(UPLOAD_FOLDER, f"{uuid.uuid4()}_UPLOAD_{original_filename}"):
\* uuid is the request's fresh random token.
TempUploadPath(uuid, original_filename) == <<uuid, <<"_UPLOAD_">> \o original_filename>>

\* The scratch file the provider's fetch writes in the temp directory before
\* it moves it into place.
PartialPath(uuid) == <<uuid, <<"megapy_">>>>

\* os.path.exists(path)
exists(files, path) == path \in DOMAIN files

\* A file written (created or overwritten) at path.
Write(files, path, bytes) ==
    [q \in (DOMAIN files) \cup {path} |-> IF q = path THEN bytes ELSE files[q]]

\* A file unlinked.
Unlink(files, path) == [q \in (DOMAIN files) \ {path} |-> files[q]]

(***************************************************************************)
(* Responses                                                               *)
(***************************************************************************)
NoBytes == "none"

Response(status, url, bytes) == [status |-> status, url |-> url, bytes |-> bytes]

\* jsonify({"error": ...}), status
ErrorResponse(status) == Response(status, None, NoBytes)

\* jsonify({"url": public_link}), 200
UrlResponse(public_link) == Response(200, public_link, NoBytes)

\* make_response(send_file(path, ...)): 200 with the file's bytes.
FileResponse(bytes) == Response(200, None, bytes)

NoResponse == Response(0, None, NoBytes)

(***************************************************************************)
(* The storage provider                                                    *)
(***************************************************************************)
\* The public link the provider hands out for the object with this handle:
\* https://mega.co.nz/#!<handle>!<key>
MegaLink(handle) == Str(<<"https://mega.", "co.nz/#", "!">>, handle)

\* The descriptors m.upload may return for the object with this handle.
\* has_f: the list field 'f' is there; f: its elements; h: the flat handle.
DictElem(h) == [isdict |-> TRUE, h |-> h]
NonDictElem == [isdict |-> FALSE, h |-> NoHandle]
Descriptor(has_f, f, h) == [has_f |-> has_f, f |-> f, h |-> h]
NoDescriptor == Descriptor(FALSE, <<>>, NoHandle)

Descriptors(handle) ==
    { Descriptor(TRUE, <<DictElem(handle)>>, NoHandle),     \* {'f': [{'h': H, 'k': K}]}
      Descriptor(FALSE, <<>>, handle),                      \* {'h': H}
      Descriptor(FALSE, <<>>, NoHandle),                    \* {}
      Descriptor(TRUE, <<>>, NoHandle),                     \* {'f': []}
      Descriptor(TRUE, <<NonDictElem>>, NoHandle),          \* {'f': ['x']}
      Descriptor(TRUE, <<DictElem(NoHandle)>>, NoHandle) }  \* {'f': [{}]}

\* What a provider call does: returns a link, returns None, or raises.
CallOutcomes == {"link", "none", "raise"}

\* Exceptions, by class; code is RequestError's code.
Exc(class, code) == [class |-> class, code |-> code]
NoExc == Exc("ok", 0)

\* How download_url may fail: the provider's RequestError with the codes for
\* not found (-9), bad argument (-2) and another one (-3), a transport failure
\* of the HTTP client, and a local failure while the file is written.
FetchFailures ==
    { Exc("RequestError", -9), Exc("RequestError", -2), Exc("RequestError", -3),
      Exc("ConnectionError", 0), Exc("OSError", 0) }

(***************************************************************************)
(* State                                                                   *)
(***************************************************************************)
VARIABLES
    configured, \* MEGA_EMAIL and MEGA_PASSWORD are both set (read once at start)
    fs,         \* the files under UPLOAD_FOLDER: path -> bytes
    remote,     \* the provider's objects: handle -> [name, bytes]
    issued,     \* the links /upload has answered with: handle -> uploaded bytes
    nreq,       \* requests received so far
    ntok,       \* random tokens drawn so far (uuid4, the fetch's scratch name)
    st          \* per worker: the handler's position and locals

vars == <<configured, fs, remote, issued, nreq, ntok, st>>

\* A connected session, as login returns it.
Session == [type |-> "Mega", text |-> <<>>, handle |-> NoHandle]

\* A worker between two requests.
Idle ==
    [ pc |-> "idle", route |-> "none", uuid |-> 0,
      content |-> NoBytes,             \* the bytes of request.files['file']
      path |-> NoPath,                 \* temp_filepath_upload / temp_download_path
      login |-> "notcalled",           \* what mega.login did
      m |-> None,                      \* the session of get_mega_instance()
      stored |-> FALSE,                \* m.upload returned
      node |-> NoDescriptor,           \* uploaded_file_node_response
      direct |-> "notcalled",          \* what m.get_upload_link will do / did
      fallback |-> "notcalled",        \* what m.export would do with the handle
      data |-> FALSE,                  \* request.get_json() is truthy
      mega_url |-> None,               \* data.get('mega_url')
      fetch |-> NoExc,                 \* how download_url ended
      calls |-> {},                    \* the operations invoked ("fallback": line 119)
      export_arg |-> {},               \* the handles m.export was called with
      created |-> {},                  \* the files written for this request
      cleanup |-> "none",              \* how the finally block ended
      resp |-> NoResponse,             \* the response returned
      uncaught |-> FALSE ]             \* an exception left the handler

Init ==
    /\ configured \in BOOLEAN
    /\ fs = << >>
    /\ remote = << >>
    /\ issued = << >>
    /\ nreq = 0
    /\ ntok = 0
    /\ st = [p \in Procs |-> Idle]

\* The service some time after its start: one /upload of a.png has been
\* answered 200 with its link and its temp file is removed.
InitRunning ==
    /\ configured = TRUE
    /\ fs = << >>
    /\ remote = Write(<< >>, 1, [name |-> TempUploadPath(1, <<"a.png">>), bytes |-> "c1"])
    /\ issued = Write(<< >>, 1, "c1")
    /\ nreq = 0
    /\ ntok = 1
    /\ st = [p \in Procs |-> Idle]

\* The server hands a request to its first free worker.
FirstFree(p) ==
    /\ st[p].pc = "idle"
    /\ \A q \in Procs : st[q].pc = "idle" => ~(q < p)

\* The handler of worker p moves to record r.
Goto(p, r) == st' = [st EXCEPT ![p] = r]

\* A return that leaves the handler at once, as one outside the try block.
return_outside_try(r, response) == [r EXCEPT !.resp = response, !.pc = "done"]

\* `return response` inside the try block: the finally block runs next.
Return(r, response) == [r EXCEPT !.resp = response, !.pc = "finally"]

(***************************************************************************)
(* get_mega_instance                                                       *)
(***************************************************************************)
\* What mega.login(MEGA_EMAIL, MEGA_PASSWORD) may do.
LoginOutcomes == {"ok", "RequestError", "Exception"}

\* A helper that lets any exception other than RequestError out.
get_mega_instance_uncaught(has_credentials, login) ==
    IF ~has_credentials THEN [m |-> None, raised |-> FALSE]
    ELSE CASE login = "ok" -> [m |-> Session, raised |-> FALSE]
           [] login = "RequestError" -> [m |-> None, raised |-> FALSE]
           [] OTHER -> [m |-> None, raised |-> TRUE]

\* get_mega_instance(): the session, or None; raised says an exception left it.
get_mega_instance(has_credentials, login) ==
    IF ~has_credentials THEN [m |-> None, raised |-> FALSE]
    ELSE CASE login = "ok" -> [m |-> Session, raised |-> FALSE]
           [] login = "RequestError" -> [m |-> None, raised |-> FALSE]
           [] OTHER -> [m |-> None, raised |-> FALSE]

(***************************************************************************)
(* upload_image                                                            *)
(***************************************************************************)
\* Line 121: uploaded_file_node_response.get('f', [{}])[0].get('h').
\* raised: IndexError on an empty list, AttributeError on a non-dict element.
file_handle(node) ==
    LET f == IF node.has_f THEN node.f ELSE <<DictElem(NoHandle)>> IN
    IF Len(f) = 0 THEN [raised |-> TRUE, h |-> NoHandle]
    ELSE IF ~f[1].isdict THEN [raised |-> TRUE, h |-> NoHandle]
    ELSE [raised |-> FALSE, h |-> f[1].h]

\* Lines 130-135: 200 with the link if there is one, 500 otherwise.
Finalize(r, public_link) ==
    IF Truthy(public_link) THEN Return(r, UrlResponse(public_link))
    ELSE Return(r, ErrorResponse(500))

\* The fallback without its test of the handle.
export_fallback_unguarded(node, outcome) ==
    LET got == file_handle(node) IN
    IF got.raised THEN [failed |-> TRUE, public_link |-> None, arg |-> {}]
    ELSE CASE outcome = "link" ->
                [failed |-> FALSE, public_link |-> MegaLink(got.h), arg |-> {got.h}]
           [] outcome = "none" ->
                [failed |-> FALSE, public_link |-> None, arg |-> {got.h}]
           [] OTHER ->
                [failed |-> TRUE, public_link |-> None, arg |-> {got.h}]

\* Lines 120-128: the handle is read from the descriptor; with a handle
\* m.export(file_handle) is called, without one ValueError is raised.  failed:
\* an exception reached line 126; arg: what m.export was called with.
export_fallback(node, outcome) ==
    LET got == file_handle(node) IN
    IF got.raised THEN [failed |-> TRUE, public_link |-> None, arg |-> {}]
    ELSE IF got.h = NoHandle THEN [failed |-> TRUE, public_link |-> None, arg |-> {}]
    ELSE CASE outcome = "link" ->
                [failed |-> FALSE, public_link |-> MegaLink(got.h), arg |-> {got.h}]
           [] outcome = "none" ->
                [failed |-> FALSE, public_link |-> None, arg |-> {got.h}]
           [] OTHER ->
                [failed |-> TRUE, public_link |-> None, arg |-> {got.h}]

\* Lines 110-135: the link is asked for with m.get_upload_link; only when
\* that raises is the fallback tried.
derive_link(r) ==
    LET r1 == [r EXCEPT !.calls = @ \cup {"get_upload_link"}] IN
    CASE r.direct = "link" -> Finalize(r1, MegaLink(r.uuid))
      [] r.direct = "none" -> Finalize(r1, None)
      [] OTHER ->
           LET got == export_fallback(r.node, r.fallback)
               r2 == [r1 EXCEPT !.export_arg = got.arg,
                                !.calls = IF got.arg = {} THEN @ \cup {"fallback"}
                                          ELSE @ \cup {"fallback", "export"}] IN
           IF got.failed THEN Return(r2, ErrorResponse(500))
           ELSE Finalize(r2, got.public_link)

\* What the environment does during one /upload: file.save (save), the login
\* (login), m.upload (store) and the descriptor it returns (node), and what
\* m.get_upload_link (direct) and m.export (fallback) answer for the object.
\* A call the handler does not reach has one outcome only.
UploadEnv(save, login, store, node, direct, fallback) ==
    [ save |-> save, login |-> login, store |-> store, node |-> node,
      direct |-> direct, fallback |-> fallback ]

UploadEnvs(uuid, has_credentials) ==
    { UploadEnv(save, "ok", "raise", NoDescriptor, "raise", "raise") :
        save \in {"raise", "raise_partial"} }
    \cup { UploadEnv("ok", login, "raise", NoDescriptor, "raise", "raise") :
        login \in IF has_credentials THEN LoginOutcomes ELSE {"ok"} }
    \cup { UploadEnv("ok", "ok", "ok", node, direct, "raise") :
        node \in Descriptors(uuid), direct \in CallOutcomes }
    \cup { UploadEnv("ok", "ok", "ok", node, "raise", fallback) :
        node \in {d \in Descriptors(uuid) : file_handle(d).h # NoHandle},
        fallback \in CallOutcomes }

\* Lines 94-139, the try block and its except clause: the file is saved, the
\* session obtained (503 without one), the file stored, the link derived; any
\* exception is answered 500.  Gives the handler's locals with the response
\* chosen, the files and the provider's objects.
upload_try(r, files, objects, has_credentials, e) ==
    IF e.save # "ok"
    THEN [ r |-> Return([r EXCEPT !.created = IF e.save = "raise_partial"
                                               THEN {r.path} ELSE {}],
                        ErrorResponse(500)),
           fs |-> IF e.save = "raise_partial"
                  THEN Write(files, r.path, PartialBytes) ELSE files,
           remote |-> objects ]
    ELSE
      LET saved == Write(files, r.path, r.content)
          got == get_mega_instance(has_credentials, e.login)
          r1 == [r EXCEPT !.created = {r.path}, !.m = got.m,
                          !.login = IF has_credentials THEN e.login ELSE "notcalled",
                          !.calls = {"get_mega_instance"}] IN
      IF got.raised
      THEN [r |-> Return(r1, ErrorResponse(500)), fs |-> saved, remote |-> objects]
      ELSE IF got.m = None
      THEN [r |-> Return(r1, ErrorResponse(503)), fs |-> saved, remote |-> objects]
      ELSE IF e.store = "raise"
      THEN [ r |-> Return([r1 EXCEPT !.calls = @ \cup {"upload"}], ErrorResponse(500)),
             fs |-> saved, remote |-> objects ]
      ELSE [ r |-> derive_link([r1 EXCEPT !.calls = @ \cup {"upload"}, !.stored = TRUE,
                                          !.node = e.node, !.direct = e.direct,
                                          !.fallback = e.fallback]),
             fs |-> saved,
             remote |-> Write(objects, r.uuid, [name |-> r.path, bytes |-> saved[r.path]]) ]

\* Lines 80-139: a request to /upload, up to the response chosen in the try
\* block.  Without a file field or with an empty file name: 400, and no try.
UploadRequest(p) ==
    /\ FirstFree(p)
    /\ nreq < MaxReqs
    /\ nreq' = nreq + 1
    /\ ntok' = ntok + 1
    /\ \E has_file \in BOOLEAN, filename \in FileNames, content \in Contents :
         LET r == [Idle EXCEPT !.route = "upload", !.uuid = ntok + 1] IN
         IF ~has_file \/ filename = <<>>
         THEN /\ Goto(p, [r EXCEPT !.resp = ErrorResponse(400), !.pc = "done"])
              /\ UNCHANGED <<fs, remote>>
         ELSE \E e \in UploadEnvs(ntok + 1, configured) :
                /\ LET original_filename == secure_filename(filename)
                       did == upload_try([r EXCEPT !.content = content,
                                            !.path = TempUploadPath(ntok + 1, original_filename)],
                                         fs, remote, configured, e) IN
                   /\ Goto(p, did.r)
                   /\ fs' = did.fs
                   /\ remote' = did.remote
    /\ UNCHANGED <<configured, issued>>

(***************************************************************************)
(* The finally blocks                                                      *)
(***************************************************************************)
\* os.remove(path): FileNotFoundError when the file is gone, another OSError
\* when the unlink fails (fails), the file unlinked otherwise.
os_remove(files, path, fails) ==
    IF ~exists(files, path)
    THEN [files |-> files, error |-> TRUE, outcome |-> "vanished"]
    ELSE IF fails
    THEN [files |-> files, error |-> TRUE, outcome |-> "failed"]
    ELSE [files |-> Unlink(files, path), error |-> FALSE, outcome |-> "removed"]

\* A finally block whose os.remove is not wrapped: the OSError replaces the
\* response.
after_remove_unwrapped(r, removed) ==
    IF removed.error
    THEN [r EXCEPT !.cleanup = removed.outcome, !.pc = "done",
                   !.resp = ErrorResponse(500), !.uncaught = TRUE]
    ELSE [r EXCEPT !.cleanup = removed.outcome, !.pc = "done"]

\* Lines 142-146 and 247-251: try: os.remove(...) except OSError: log.  The
\* handler then returns the response it had chosen.
after_remove(r, removed) == [r EXCEPT !.cleanup = removed.outcome, !.pc = "done"]

\* What a finally block and the return after it still use of the handler's
\* locals: the temp path and the response chosen (and, to tell what was
\* asked and answered, the request's input and the files written).
Live(r) ==
    [Idle EXCEPT !.route = r.route, !.content = r.content, !.data = r.data,
                 !.mega_url = r.mega_url, !.path = r.path,
                 !.created = r.created, !.resp = r.resp, !.uncaught = r.uncaught]

\* Line 141: if os.path.exists(temp_filepath_upload)
UploadFinally(p) ==
    /\ st[p].pc = "finally"
    /\ st[p].route = "upload"
    /\ IF exists(fs, st[p].path)
       THEN Goto(p, [Live(st[p]) EXCEPT !.pc = "remove"])
       ELSE Goto(p, [Live(st[p]) EXCEPT !.cleanup = "absent", !.pc = "done"])
    /\ UNCHANGED <<configured, fs, remote, issued, nreq, ntok>>

\* Lines 142-146: os.remove(temp_filepath_upload), OSError logged.
UploadRemove(p) ==
    /\ st[p].pc = "remove"
    /\ st[p].route = "upload"
    /\ \E fails \in BOOLEAN :
         LET removed == os_remove(fs, st[p].path, fails) IN
         /\ fs' = removed.files
         /\ Goto(p, after_remove(st[p], removed))
    /\ UNCHANGED <<configured, remote, issued, nreq, ntok>>

(***************************************************************************)
(* get_image_from_mega_link                                                *)
(***************************************************************************)
\* The values the client may send as mega_url (None: the key is missing or
\* null): "", 123, a foreign URL, a provider URL without '!', a foreign URL
\* with '!', and well-formed links: those /upload has issued and one to an
\* object that does not exist.
MegaUrls ==
    { None, Str(<<>>, NoHandle), IntValue,
      Str(<<"https://not-mega.", "example/x">>, NoHandle),
      Str(<<"https://mega.", "nz/file/x">>, NoHandle),
      Str(<<"http://mega.", "nz/#", "!">>, NoHandle) }
    \cup { MegaLink(h) : h \in (DOMAIN issued) \cup {NoHandle} }

\* Lines 161-174: the body and the link are checked.  "400": rejected; "ok":
\* accepted; "AttributeError": mega_url has no startswith (it is no str), and
\* the exception leaves the handler, raised outside every try block.
validate(data_truthy, mega_url) ==
    IF ~data_truthy THEN "400"
    ELSE IF ~Truthy(mega_url) THEN "400"
    ELSE IF mega_url.type # "str" THEN "AttributeError"
    ELSE IF ~startswith(mega_url, "https://mega.") \/ ~contains(mega_url, "!") THEN "400"
    ELSE "ok"

\* Lines 232-239: the status for a RequestError.
status_code(req_err) ==
    IF req_err.code = -9 THEN 404
    ELSE IF req_err.code = -2 THEN 400
    ELSE 502

\* Lines 230-243: the except clauses around the fetch.
except_response(exc) ==
    IF exc.class = "RequestError" THEN ErrorResponse(status_code(exc))
    ELSE ErrorResponse(500)

\* What download_url may do: fetch the object ("ok"), or raise, an exception
\* other than RequestError possibly leaving the scratch file behind.
FetchOutcomes ==
    { [exc |-> NoExc, partial |-> FALSE] }
    \cup { [exc |-> x, partial |-> FALSE] : x \in FetchFailures }
    \cup { [exc |-> x, partial |-> TRUE] : x \in {y \in FetchFailures : y.class # "RequestError"} }

\* Lines 191-203 and 230-243: download_url fetches the object into
\* UPLOAD_FOLDER under its stored name and returns that path; when it raises,
\* temp_download_path stays None and the except clauses choose the response.
download_url(r, files, objects, out) ==
    LET r1 == [r EXCEPT !.calls = @ \cup {"download_url"}, !.fetch = out.exc]
        object == objects[r.mega_url.handle] IN
    IF out.exc = NoExc
    THEN [ r |-> [r1 EXCEPT !.path = object.name, !.created = {object.name},
                            !.pc = "exists"],
           fs |-> Write(files, object.name, object.bytes) ]
    ELSE [ r |-> Return([r1 EXCEPT !.created = IF out.partial
                                                THEN {PartialPath(r.uuid)} ELSE {}],
                        except_response(out.exc)),
           fs |-> IF out.partial
                  THEN Write(files, PartialPath(r.uuid), PartialBytes) ELSE files ]

\* Lines 161-203: a request to /get_image_from_mega_link, up to the return of
\* download_url: validation, Mega() (which may raise: 500), the fetch.
DownloadRequest(p) ==
    /\ FirstFree(p)
    /\ nreq < MaxReqs
    /\ nreq' = nreq + 1
    /\ ntok' = ntok + 1
    /\ \E data_truthy \in BOOLEAN, mega_url \in MegaUrls :
         LET r == [Idle EXCEPT !.route = "download", !.uuid = ntok + 1,
                               !.data = data_truthy, !.mega_url = mega_url]
             v == validate(data_truthy, mega_url) IN
         /\ ~data_truthy => mega_url = None
         /\ CASE v = "400" ->
                   /\ Goto(p, [r EXCEPT !.resp = ErrorResponse(400), !.pc = "done"])
                   /\ fs' = fs
              [] v = "AttributeError" ->
                   /\ Goto(p, [r EXCEPT !.resp = ErrorResponse(500), !.uncaught = TRUE,
                                        !.pc = "done"])
                   /\ fs' = fs
              [] OTHER ->
                   \/ /\ Goto(p, [r EXCEPT !.calls = {"Mega"},
                                           !.resp = ErrorResponse(500), !.pc = "done"])
                      /\ fs' = fs
                   \/ \E out \in FetchOutcomes :
                        /\ out.exc = NoExc => mega_url.handle \in DOMAIN remote
                        /\ LET did == download_url([r EXCEPT !.calls = {"Mega"}],
                                                   fs, remote, out) IN
                           /\ Goto(p, did.r)
                           /\ fs' = did.fs
    /\ UNCHANGED <<configured, remote, issued>>

\* Lines 206-208: the file must be there after the fetch.
CheckDownloaded(p) ==
    /\ st[p].pc = "exists"
    /\ IF exists(fs, st[p].path)
       THEN Goto(p, [st[p] EXCEPT !.pc = "send"])
       ELSE Goto(p, Return(st[p], ErrorResponse(500)))
    /\ UNCHANGED <<configured, fs, remote, issued, nreq, ntok>>

\* Lines 211-228: send_file opens the file (FileNotFoundError -> line 241: 500)
\* and the response carries its bytes.
SendFile(p) ==
    /\ st[p].pc = "send"
    /\ IF exists(fs, st[p].path)
       THEN Goto(p, Return(st[p], FileResponse(fs[st[p].path])))
       ELSE Goto(p, Return(st[p], ErrorResponse(500)))
    /\ UNCHANGED <<configured, fs, remote, issued, nreq, ntok>>

\* Line 246: if temp_download_path and os.path.exists(temp_download_path)
DownloadFinally(p) ==
    /\ st[p].pc = "finally"
    /\ st[p].route = "download"
    /\ IF st[p].path # NoPath /\ exists(fs, st[p].path)
       THEN Goto(p, [Live(st[p]) EXCEPT !.pc = "remove"])
       ELSE Goto(p, [Live(st[p]) EXCEPT !.cleanup = "absent", !.pc = "done"])
    /\ UNCHANGED <<configured, fs, remote, issued, nreq, ntok>>

\* Lines 247-251: os.remove(temp_download_path), OSError logged.
DownloadRemove(p) ==
    /\ st[p].pc = "remove"
    /\ st[p].route = "download"
    /\ \E fails \in BOOLEAN :
         LET removed == os_remove(fs, st[p].path, fails) IN
         /\ fs' = removed.files
         /\ Goto(p, after_remove(st[p], removed))
    /\ UNCHANGED <<configured, remote, issued, nreq, ntok>>

(***************************************************************************)
(* The response leaves the worker                                          *)
(***************************************************************************)
\* The response is sent; a link answered by /upload is now known to clients.
Finish(p) ==
    /\ st[p].pc = "done"
    /\ issued' = IF st[p].route = "upload" /\ st[p].resp.status = 200
                 THEN Write(issued, st[p].resp.url.handle, st[p].content)
                 ELSE issued
    /\ Goto(p, Idle)
    /\ UNCHANGED <<configured, fs, remote, nreq, ntok>>

Next ==
    \E p \in Procs :
        \/ UploadRequest(p)
        \/ UploadFinally(p)
        \/ UploadRemove(p)
        \/ DownloadRequest(p)
        \/ CheckDownloaded(p)
        \/ SendFile(p)
        \/ DownloadFinally(p)
        \/ DownloadRemove(p)
        \/ Finish(p)

Spec == Init /\ [][Next]_vars

\* The same program, started from the running service.
SpecRunning == InitRunning /\ [][Next]_vars

(***************************************************************************)
(* Properties                                                              *)
(***************************************************************************)
\* The handler of worker p has chosen its response in the try block and its
\* finally block has not started: every local is still there.
Chosen(p) == st[p].pc = "finally"

\* The handler of worker p returns: its response leaves now.
Returned(p) == st[p].pc = "done"

\* A request to /upload that passed the checks of lines 80-86.
ValidUpload(p) == st[p].route = "upload" /\ st[p].path # NoPath

\* C1 as stated: when the handler of a valid /upload returns, the temp file
\* it wrote does not exist, whatever the exit path.
C1_TempFileGoneAtReturn ==
    \A p \in Procs :
        Returned(p) /\ ValidUpload(p) => ~exists(fs, st[p].path)

\* C1, amended: on every exit path of a valid /upload the finally block has
\* run when the handler returns, and the temp file does not exist then unless
\* os.remove itself failed with an OSError (which is logged and swallowed).
C1_TempFileGoneUnlessRemoveFailed ==
    \A p \in Procs :
        Returned(p) /\ ValidUpload(p) =>
            /\ st[p].cleanup \in {"absent", "removed", "vanished", "failed"}
            /\ st[p].cleanup # "failed" => ~exists(fs, st[p].path)

\* C1's case: a valid /upload that wrote its temp file and was answered 503
\* returns with the file removed.
C1_Witness ==
    \E p \in Procs :
        /\ Returned(p) /\ ValidUpload(p)
        /\ st[p].resp.status = 503
        /\ st[p].created = {st[p].path}
        /\ st[p].cleanup = "removed"
        /\ ~exists(fs, st[p].path)

\* C2: when the handler of /get_image_from_mega_link returns, no file that
\* download_url created for this request exists, whether download_url
\* returned a path or raised.
C2_FetchedFilesGoneAtReturn ==
    \A p \in Procs :
        Returned(p) /\ st[p].route = "download" =>
            \A f \in st[p].created : ~exists(fs, f)

\* The handler of worker p holds a temp file.
HoldsTempFile(p) ==
    /\ st[p].pc \in {"exists", "send", "finally", "remove"}
    /\ st[p].path # NoPath

\* C3: two requests handled at the same time never use the same temp path
\* (so neither can read, overwrite or delete the other's file).
C3_TempPathsDistinct ==
    \A p, q \in Procs :
        p # q /\ HoldsTempFile(p) /\ HoldsTempFile(q) => st[p].path # st[q].path

\* C4: after a successful store the strategies are tried in order until one
\* yields a link: a direct call that completes without a link is followed by
\* the fallback, 200 carries the link a strategy yielded, and 500 is answered
\* only when every strategy was tried and failed.
C4_FallbackChain ==
    \A p \in Procs :
        Chosen(p) /\ st[p].route = "upload" /\ st[p].stored =>
            /\ st[p].direct = "none" => "fallback" \in st[p].calls
            /\ st[p].resp.status \in {200, 500}
            /\ st[p].resp.status = 200 =>
                   /\ st[p].resp.url = MegaLink(st[p].uuid)
                   /\ st[p].direct = "link" \/ st[p].fallback = "link"
            /\ st[p].resp.status = 500 =>
                   /\ st[p].direct # "link"
                   /\ "fallback" \in st[p].calls
                   /\ st[p].fallback # "link"

\* C5 as stated: with no credentials configured a valid /upload is answered
\* 503, never 500.
C5_NoCredentials503 ==
    \A p \in Procs :
        ~configured /\ ValidUpload(p) /\ (Chosen(p) \/ Returned(p)) =>
            st[p].resp.status = 503

\* C5, amended: whenever /upload has saved its temp file and calls the
\* session helper, and no session can be established (no credentials, login
\* refused with RequestError, login raising anything else), the helper
\* returns None without raising and /upload answers 503 without calling
\* m.upload.  (A file.save that raises is answered 500 before the helper is
\* called, with or without credentials.)
C5_SessionUnavailable503 ==
    \A p \in Procs :
        /\ Chosen(p) /\ st[p].route = "upload"
        /\ "get_mega_instance" \in st[p].calls
        /\ ~configured \/ st[p].login # "ok"
        => /\ st[p].m = None
           /\ st[p].resp.status = 503
           /\ ~st[p].uncaught
           /\ "upload" \notin st[p].calls

\* C5's case: credentials are configured, login raised an exception that is
\* no RequestError, and the answer is 503.
C5_Witness ==
    \E p \in Procs :
        /\ Chosen(p) /\ st[p].route = "upload"
        /\ configured /\ st[p].login = "Exception"
        /\ st[p].resp.status = 503

\* The failure came from the provider or the transport to it.
Upstream(exc) == exc.class \in {"RequestError", "ConnectionError"}

\* C6: when download_url fails the status follows the kind of failure: not
\* found -> 404, bad argument -> 400, any other provider or transport
\* failure -> 502, only a failure that is not upstream -> 500; and nothing
\* leaves the handler uncaught.
C6_StatusByFailureKind ==
    \A p \in Procs :
        Chosen(p) /\ st[p].route = "download" /\ st[p].fetch # NoExc =>
            /\ ~st[p].uncaught
            /\ st[p].resp.status =
                 CASE st[p].fetch = Exc("RequestError", -9) -> 404
                   [] st[p].fetch = Exc("RequestError", -2) -> 400
                   [] Upstream(st[p].fetch) -> 502
                   [] OTHER -> 500

\* mega_url is a str with the provider's prefix and the key delimiter.
WellFormed(mega_url) ==
    /\ mega_url.type = "str"
    /\ startswith(mega_url, "https://mega.")
    /\ contains(mega_url, "!")

\* C7: a body that is empty, or has no mega_url, or whose mega_url is not a
\* well-formed str, is answered 400 with no provider operation invoked and
\* no temp file created.
C7_InvalidBody400 ==
    \A p \in Procs :
        /\ Returned(p) /\ st[p].route = "download"
        /\ ~st[p].data \/ ~WellFormed(st[p].mega_url)
        => /\ st[p].resp.status = 400
           /\ st[p].calls = {}
           /\ st[p].created = {}

\* The descriptor has neither a flat handle nor a list whose first element
\* is a dictionary with a handle.
NoHandleIn(node) ==
    /\ node.h = NoHandle
    /\ ~(node.has_f /\ Len(node.f) > 0 /\ node.f[1].isdict /\ node.f[1].h # NoHandle)

\* C8 as stated: a stored file whose descriptor carries no handle is
\* answered 500 with no url, and m.export is never called without a handle.
C8_NoHandleNoLink ==
    \A p \in Procs :
        Chosen(p) /\ st[p].route = "upload" /\ st[p].stored /\ NoHandleIn(st[p].node) =>
            /\ st[p].resp.status = 500
            /\ st[p].resp.url = None
            /\ NoHandle \notin st[p].export_arg

\* C8, amended: a stored file whose descriptor carries no handle, and for
\* which m.get_upload_link yields no link (it raises or returns None), is
\* answered 500 with no url; and whatever m.get_upload_link does, m.export
\* is never called without a handle.
C8_NoHandleNoLinkUnlessDirect ==
    \A p \in Procs :
        Chosen(p) /\ st[p].route = "upload" /\ st[p].stored /\ NoHandleIn(st[p].node) =>
            /\ st[p].direct # "link" =>
                   /\ st[p].resp.status = 500
                   /\ st[p].resp.url = None
            /\ "export" \notin st[p].calls
            /\ NoHandle \notin st[p].export_arg

\* C8's case: the descriptor is {'f': [{}]}, m.get_upload_link raised, the
\* fallback found no handle, and the answer is 500.
C8_Witness ==
    \E p \in Procs :
        /\ Chosen(p) /\ st[p].route = "upload" /\ st[p].stored
        /\ st[p].node = Descriptor(TRUE, <<DictElem(NoHandle)>>, NoHandle)
        /\ st[p].direct = "raise"
        /\ "fallback" \in st[p].calls
        /\ st[p].resp.status = 500

\* C9: the link of every file /upload answered 200 for passes the format
\* guard, and /get_image_from_mega_link, the provider delivering the object,
\* answers it 200 with the uploaded bytes.
C9_RoundTrip ==
    /\ \A h \in DOMAIN issued : validate(TRUE, MegaLink(h)) = "ok"
    /\ \A p \in Procs :
          /\ Chosen(p) /\ st[p].route = "download"
          /\ "download_url" \in st[p].calls /\ st[p].fetch = NoExc
          /\ st[p].mega_url.handle \in DOMAIN issued
          => st[p].resp = FileResponse(issued[st[p].mega_url.handle])

\* C10: the finally block never changes the outcome: from its start to the
\* return, whatever happens to the temp file, the response chosen stays and
\* no exception leaves the handler.
C10_CleanupKeepsResponse ==
    [][ \A p \in Procs :
          st[p].pc \in {"finally", "remove"} =>
              /\ st'[p].pc \in {"finally", "remove", "done"}
              /\ st'[p].resp = st[p].resp
              /\ st'[p].uncaught = st[p].uncaught ]_vars

\* C10's case: the temp file was removed by the other request between
\* os.path.exists and os.remove, and the handler returns its 200.
C10_Witness ==
    \E p \in Procs :
        /\ Returned(p)
        /\ st[p].cleanup = "vanished"
        /\ st[p].resp.status = 200
        /\ st[p].resp.bytes \in Contents

====
